---- MODULE Spec2Model ----
(***************************************************************************)
(* Model of the experiment harness of PA3_CN_Assignment:                   *)
(*   src/scripts/tc_experiment.py   (runner "tc": sysctl + tc + iperf3)    *)
(*   src/scripts/run_experiments.py (runner "pantheon": Pantheon test.py)  *)
(*                                                                         *)
(* A batch is one execution of a runner's main().  Every external command  *)
(* goes through run_command, which starts a shell with Popen and waits for *)
(* it: it returns the exit status (0 = "ok", non-zero = "fail"), raises    *)
(* when the process cannot be started ("raise"), and never returns when    *)
(* the process never exits ("hang", modelled for the traffic generator).   *)
(* The host (selected congestion control, root qdisc of the interface,     *)
(* iperf3 daemon) and the result store (one directory per key              *)
(* profile_scheme) outlive the trials.                                     *)
(***************************************************************************)
EXTENDS Integers, Sequences, FiniteSets, TLC

\* ------------------------------------------------------------------ bounds
MaxTrials == 2      \* largest grid (schemes x profiles) of a batch
MaxParallel == 2    \* largest --parallel
MaxIntervals == 2   \* most intervals in one iperf3 report
MaxDirs == 2        \* most directories under the data directory

\* ------------------------------------------------------------------ inputs
Schemes == {"cubic", "bbr"}
Profiles == {"profile1", "profile2"}
UnknownProfile == "profile9"
ProfileIds == Profiles \cup {UnknownProfile}
Keys == ProfileIds \X Schemes

VARIABLES
    script,        \* "tc" | "pantheon": which runner's main() this batch executes
    argSchemes,    \* args.schemes
    argProfiles,   \* args.profiles
    argParallel,   \* args.parallel (pantheon runner only)
    installed,     \* schemes Pantheon has installed
    cc,            \* net.ipv4.tcp_congestion_control, host-wide
    qdisc,         \* root qdisc tree of the default interface, host-wide
    server,        \* an iperf3 daemon is listening on port 5050
    store,         \* data/<profile>_<scheme>/: the summary and the series record
    mpc,           \* position of main()
    grid,          \* the (scheme, profile) pairs main() iterates over
    next,          \* index of the next pair to start
    outcome,       \* per pair: "none" | "ok" (returned 0) | "fail" | "exc"
    exitStatus,    \* "running" | "0" | "1": exit status of the command
    wk,            \* the processes running trials: position and locals
    rawIntervals,  \* iperf_data['intervals'] handed to the reduction
    rawProfile,    \* the profile of the trial being reduced
    reduced,       \* "none", or the result dict and throughput_data it computed
    dataDir,       \* the data directory an analysis script is pointed at
    analyzer,      \* "manual" | "pantheon": which analysis script runs
    report         \* "none", or what the analysis script produced

vars == <<script, argSchemes, argProfiles, argParallel, installed,
          cc, qdisc, server, store, mpc, grid, next, outcome, exitStatus, wk,
          rawIntervals, rawProfile, reduced, dataDir, analyzer, report>>

\* the reduction taken on its own, and the analysis scripts: no step of a
\* batch touches them
offline == <<rawIntervals, rawProfile, reduced, dataDir, analyzer, report>>
\* what no step of a batch changes
args == <<script, argSchemes, argProfiles, argParallel, offline>>
host == <<cc, qdisc, server>>

\* ------------------------------------------------------------- sequences
\* the argument lists of at most n entries over S, no entry given twice;
\* nargs='+' with a non-empty default: argparse lets no empty list through
ListsUpTo(S, n) ==
    {s \in UNION {[1..k -> S] : k \in 1..n} :
        \A i, j \in DOMAIN s : s[i] = s[j] => i = j}

RECURSIVE Cross(_, _)
\* for scheme in schemes: for profile in profiles: append((scheme, profile))
Cross(schemes, profiles) ==
    IF schemes = <<>> THEN <<>>
    ELSE [j \in 1..Len(profiles) |-> <<Head(schemes), profiles[j]>>]
         \o Cross(Tail(schemes), profiles)

\* the queue sizes when the factor 8 of bits to bytes is left out
BdpBytes_NoBitsToBytes(bw, delay) == (bw * 1000000 * delay) \div 1000

\* ----------------------------------------------------------------- profiles
\* the if/elif chain of the runners: delay_ms, bandwidth_mbps, queue_size_bytes
\* int(bandwidth_mbps * 1000000 * delay_ms / 8 / 1000)
BdpBytes(bw, delay) == ((bw * 1000000 * delay) \div 8) \div 1000

ProfileParams(profile) ==
    IF profile = "profile1"
    THEN [delay |-> 10, bw |-> 50, queue |-> BdpBytes(50, 10)]
    ELSE [delay |-> 200, bw |-> 1, queue |-> BdpBytes(1, 200)]

\* run_experiments.py 35-44: the same chain, the queue sizes written out
PantheonProfileParams(profile) ==
    IF profile = "profile1"
    THEN [delay |-> 10, bw |-> 50, queue |-> 62500]
    ELSE [delay |-> 200, bw |-> 1, queue |-> 25000]

\* data_dir = f"{base_dir}/data/{profile}_{cc_algorithm}"
KeyOf(pair) == <<pair[2], pair[1]>>

\* ------------------------------------------------------------------- host
\* kept: a teardown command has run against this qdisc and did not remove it
NoQdisc == [htb |-> FALSE, rate |-> 0, delay |-> 0, limit |-> 0, netem |-> FALSE,
            by |-> 0, kept |-> FALSE]
NoTag == [k |-> "none", by |-> 0]
PrevTag == [k |-> "prev", by |-> 0]
EmptyRec == [summary |-> NoTag, series |-> NoTag]
\* the store an earlier batch leaves in which every trial of a known profile
\* succeeded
PrevStore ==
    [k \in Keys |-> IF k[1] \in Profiles THEN [summary |-> PrevTag, series |-> PrevTag]
                    ELSE EmptyRec]

\* ---------------------------------------------------------------- workers
\* a process's locals while it runs a trial.  pc, task, ret (the value the
\* function returns, "ok" for 0), raw (iperf_result.json) and queue
\* (queue_size_bytes) are the program's;
\* the rest records what the trial has done so far: setups / cleanups (calls
\* of setup_tc / cleanup_tc), clean (outcome of cleanup_tc's command),
\* launched (traffic generator processes started), installs (install commands
\* run), absent (the availability check failed), cfgFail (a tc add command of
\* setup_tc exited non-zero), capFail (the generator exited non-zero), exc
\* (the step whose exception the trial is handling)
Procs == 0..MaxParallel
Idle == [pc |-> "idle", task |-> 0, ret |-> "none", raw |-> "absent", queue |-> 0,
         setups |-> 0, cleanups |-> 0, clean |-> "none", launched |-> 0,
         installs |-> 0, absent |-> FALSE, cfgFail |-> FALSE, capFail |-> FALSE,
         exc |-> "none"]

\* the processes that run trials: the main process (0) when sequential,
\* the pool's workers 1..parallel under Pool(args.parallel)
Workers == IF script = "pantheon" /\ argParallel > 1 THEN 1..argParallel ELSE {0}

Scheme(w) == grid[wk[w].task][1]
Profile(w) == grid[wk[w].task][2]
Key(w) == <<Profile(w), Scheme(w)>>

\* nothing has run yet: main() is at its first line, the host is untouched
InitMain ==
    /\ cc = "cubic"
    /\ qdisc = NoQdisc
    /\ server = FALSE
    /\ mpc = "start"
    /\ grid = <<>>
    /\ next = 1
    /\ outcome = <<>>
    /\ exitStatus = "running"
    /\ wk = [w \in Procs |-> Idle]

\* ------------------------------------------------------------- arithmetic
\* Python's true division, kept exact: a value is the fraction n/d in lowest
\* terms; d = 0 stands for the ZeroDivisionError a division by zero raises
RECURSIVE GCD(_, _)
GCD(a, b) == IF b = 0 THEN a ELSE GCD(b, a % b)
ZeroDivisionError == [n |-> 0, d |-> 0]
Frac(n, d) ==
    IF d = 0 THEN ZeroDivisionError
    ELSE LET g == GCD(n, d) IN [n |-> n \div g, d |-> d \div g]
Num(i) == [n |-> i, d |-> 1]
Raised(x) == x.d = 0
Div(x, y) ==
    IF Raised(x) \/ Raised(y) THEN ZeroDivisionError
    ELSE Frac(x.n * y.d, x.d * y.n)
Add(x, y) ==
    IF Raised(x) \/ Raised(y) THEN ZeroDivisionError
    ELSE Frac(x.n * y.d + y.n * x.d, x.d * y.d)
Positive(x) == ~Raised(x) /\ x.n > 0
LessEq(x, y) == x.n * y.d <= y.n * x.d

\* -------------------------------------------------------------- reduction
\* tc_experiment.py 110-161, for one interval's 'sum' dict; a key the dict
\* lacks reads as 0 (sum_data.get(.., 0))

\* bytes over microseconds, the factor 8 left out
throughput_BytesNotBits(sum) ==
    IF sum.seconds > 0 THEN Div(Num(sum.bytes), Num(sum.seconds * 1000000))
    ELSE Num(0)

throughput(sum) ==
    IF sum.seconds > 0 THEN Div(Num(sum.bytes * 8), Num(sum.seconds * 1000000))
    ELSE Num(0)

packets_sent(sum) ==
    IF sum.bytes > 0 THEN Div(Num(sum.bytes), Num(1500)) ELSE Num(1)

loss_rate(sum) ==
    IF Positive(packets_sent(sum)) THEN Div(Num(sum.retransmits), packets_sent(sum))
    ELSE Num(0)

\* one row of throughput_data
Sample(sum, delay_ms) ==
    [time |-> sum.start, throughput |-> throughput(sum), delay |-> delay_ms * 2,
     loss |-> loss_rate(sum)]

RECURSIVE total_throughput(_)
total_throughput(intervals) ==
    IF intervals = <<>> THEN Num(0)
    ELSE Add(total_throughput(Tail(intervals)), throughput(Head(intervals)))

RECURSIVE total_retransmits(_)
total_retransmits(intervals) ==
    IF intervals = <<>> THEN 0
    ELSE total_retransmits(Tail(intervals)) + Head(intervals).retransmits

RECURSIVE total_bytes(_)
total_bytes(intervals) ==
    IF intervals = <<>> THEN 0
    ELSE total_bytes(Tail(intervals)) + Head(intervals).bytes

avg_throughput(intervals) ==
    IF Len(intervals) > 0 THEN Div(total_throughput(intervals), Num(Len(intervals)))
    ELSE Num(0)

total_packets(intervals) ==
    IF total_bytes(intervals) > 0 THEN Div(Num(total_bytes(intervals)), Num(1500))
    ELSE Num(1)

avg_loss_rate(intervals) ==
    IF Positive(total_packets(intervals))
    THEN Div(Num(total_retransmits(intervals)), total_packets(intervals))
    ELSE Num(0)

\* the result dict and throughput_data of one trial
Reduce(intervals, delay_ms) ==
    LET data == [i \in 1..Len(intervals) |-> Sample(intervals[i], delay_ms)]
        result == [avg_throughput |-> avg_throughput(intervals),
                   avg_delay |-> delay_ms * 2,
                   loss_rate |-> avg_loss_rate(intervals)]
        failed == \/ \E i \in 1..Len(data) :
                        Raised(data[i].throughput) \/ Raised(data[i].loss)
                  \/ Raised(result.avg_throughput) \/ Raised(result.loss_rate)
    IN [status |-> IF failed THEN "raised" ELSE "done",
        result |-> result, throughput_data |-> data]

NotReduced ==
    [status |-> "none",
     result |-> [avg_throughput |-> Num(0), avg_delay |-> 0, loss_rate |-> Num(0)],
     throughput_data |-> <<>>]

\* no reduction and no analysis is under way
InitNoReduction ==
    /\ rawIntervals = <<>>
    /\ rawProfile = "profile1"
    /\ reduced = NotReduced
\* what an analysis script has produced: how it ended ("done": tables
\* written; "empty": it found nothing and returned 1; "raised"), the rows of
\* its comparison tables, and how many directories it has printed a message
\* about leaving out
NoReport == [status |-> "none", rows |-> {}, reported |-> 0]
InitNoAnalysis ==
    /\ dataDir = <<>>
    /\ analyzer = "manual"
    /\ report = NoReport
InitOffline == InitNoReduction /\ InitNoAnalysis

Init ==
    /\ script \in {"tc", "pantheon"}
    /\ argSchemes \in ListsUpTo(Schemes, MaxTrials)
    /\ argProfiles \in ListsUpTo(ProfileIds, MaxTrials)
    /\ Len(argSchemes) * Len(argProfiles) <= MaxTrials
    /\ argParallel \in IF script = "pantheon" THEN 0..MaxParallel ELSE {1}
    /\ installed \in IF script = "pantheon" THEN SUBSET Schemes ELSE {Schemes}
    /\ store \in {[k \in Keys |-> EmptyRec], PrevStore}
    /\ InitMain
    /\ InitOffline

Set(w, r) == wk' = [wk EXCEPT ![w] = r]

\* ------------------------------------------------ run_command and the host
\* run_command(cmd): Popen(cmd, shell=True) may raise, else wait() and return
\* the exit status, which no caller in tc_experiment.py looks at
Outcomes == {"ok", "fail", "raise"}

\* "tc qdisc del dev <if> root": removes the whole tree when one is installed
\* and exits non-zero when none is; the command can also fail on its own
TcDelOutcomes(q) == IF q.htb THEN Outcomes ELSE {"fail", "raise"}
TcDel(q, o) == IF o = "ok" THEN NoQdisc ELSE q

\* "tc qdisc add dev <if> root handle 1: htb default 10": needs a free root
TcAddRootOutcomes(q) == IF q.htb THEN {"fail", "raise"} ELSE Outcomes
TcAddRoot(q, o, t) == IF o = "ok" THEN [NoQdisc EXCEPT !.htb = TRUE, !.by = t] ELSE q

\* "tc class add ... parent 1: classid 1:10 htb rate <bw>mbit": needs the htb
\* root and no class 1:10 yet
TcAddClassOutcomes(q) == IF q.htb /\ q.rate = 0 THEN Outcomes ELSE {"fail", "raise"}
TcAddClass(q, o, bw) == IF o = "ok" THEN [q EXCEPT !.rate = bw] ELSE q

\* "tc qdisc add ... parent 1:10 handle 10: netem delay <d>ms limit <q>": needs
\* class 1:10 and no qdisc under it yet
TcAddNetemOutcomes(q) == IF q.rate > 0 /\ ~q.netem THEN Outcomes ELSE {"fail", "raise"}
TcAddNetem(q, o, d, l) ==
    IF o = "ok" THEN [q EXCEPT !.netem = TRUE, !.delay = d, !.limit = l] ELSE q

\* -------------------------------------------------- tc_experiment.py: trial
\* where control goes when a statement of the try block raises, and where it
\* goes after "return 0" / the except clause: the finally clause
OnRaiseInTry == "t_except"
AfterReturn_SkipCleanup == "t_killall"
AfterReturn == "t_cleanup"
AfterExcept_NoFinally == "end"
AfterExcept == "t_cleanup"

\* the else branch of the profile chain left out: every profile id goes on
run_experiment_begin_AnyProfile(w) ==
    /\ wk[w].pc = "t_begin"
    /\ \E o \in {"ok", "raise"} :
         Set(w, IF o = "raise" THEN [wk[w] EXCEPT !.pc = "raised"]
                ELSE [wk[w] EXCEPT !.pc = "t_iface",
                                   !.queue = ProfileParams(Profile(w)).queue])
    /\ UNCHANGED <<args, installed, host, store, mpc, grid, next, outcome, exitStatus>>

\* lines 57-80: paths, makedirs, profile parameters
run_experiment_begin(w) ==
    /\ wk[w].pc = "t_begin"
    /\ \E o \in {"ok", "raise"} :
         Set(w, IF o = "raise" THEN [wk[w] EXCEPT !.pc = "raised"]
                ELSE IF Profile(w) \notin Profiles
                     THEN [wk[w] EXCEPT !.pc = "end", !.ret = "fail"]
                     ELSE [wk[w] EXCEPT !.pc = "t_iface",
                                        !.queue = ProfileParams(Profile(w)).queue])
    /\ UNCHANGED <<args, installed, host, store, mpc, grid, next, outcome, exitStatus>>

\* lines 83-88: the default interface, "" when there is no default route
run_experiment_interface(w) ==
    /\ wk[w].pc = "t_iface"
    /\ \E o \in {"found", "empty", "raise"} :
         Set(w, CASE o = "found" -> [wk[w] EXCEPT !.pc = "t_sysctl"]
                  [] o = "empty" -> [wk[w] EXCEPT !.pc = "end", !.ret = "fail"]
                  [] o = "raise" -> [wk[w] EXCEPT !.pc = "raised"])
    /\ UNCHANGED <<args, installed, host, store, mpc, grid, next, outcome, exitStatus>>

\* lines 90-92: sysctl -w net.ipv4.tcp_congestion_control=<scheme>
run_experiment_sysctl(w) ==
    /\ wk[w].pc = "t_sysctl"
    /\ \E o \in Outcomes :
         /\ cc' = IF o = "ok" THEN Scheme(w) ELSE cc
         /\ Set(w, IF o = "raise" THEN [wk[w] EXCEPT !.pc = "raised"]
                   ELSE [wk[w] EXCEPT !.pc = "t_del"])
    /\ UNCHANGED <<args, installed, qdisc, server, store, mpc, grid, next, outcome, exitStatus>>

\* setup_tc, line 39: clear any existing qdisc
setup_tc_del(w) ==
    /\ wk[w].pc = "t_del"
    /\ \E o \in TcDelOutcomes(qdisc) :
         /\ qdisc' = TcDel(qdisc, o)
         /\ Set(w, IF o = "raise"
                   THEN [wk[w] EXCEPT !.pc = OnRaiseInTry, !.exc = "setup", !.setups = @ + 1]
                   ELSE [wk[w] EXCEPT !.pc = "t_htb", !.setups = @ + 1])
    /\ UNCHANGED <<args, installed, cc, server, store, mpc, grid, next, outcome, exitStatus>>

\* setup_tc, line 42: the htb root
setup_tc_htb(w) ==
    /\ wk[w].pc = "t_htb"
    /\ \E o \in TcAddRootOutcomes(qdisc) :
         /\ qdisc' = TcAddRoot(qdisc, o, wk[w].task)
         /\ Set(w, CASE o = "raise" -> [wk[w] EXCEPT !.pc = OnRaiseInTry, !.exc = "setup"]
                     [] o = "fail" -> [wk[w] EXCEPT !.pc = "t_class", !.cfgFail = TRUE]
                     [] o = "ok" -> [wk[w] EXCEPT !.pc = "t_class"])
    /\ UNCHANGED <<args, installed, cc, server, store, mpc, grid, next, outcome, exitStatus>>

\* setup_tc, line 43: the rate-limiting class
setup_tc_class(w) ==
    /\ wk[w].pc = "t_class"
    /\ \E o \in TcAddClassOutcomes(qdisc) :
         /\ qdisc' = TcAddClass(qdisc, o, ProfileParams(Profile(w)).bw)
         /\ Set(w, CASE o = "raise" -> [wk[w] EXCEPT !.pc = OnRaiseInTry, !.exc = "setup"]
                     [] o = "fail" -> [wk[w] EXCEPT !.pc = "t_netem", !.cfgFail = TRUE]
                     [] o = "ok" -> [wk[w] EXCEPT !.pc = "t_netem"])
    /\ UNCHANGED <<args, installed, cc, server, store, mpc, grid, next, outcome, exitStatus>>

\* setup_tc, line 46: delay and queue limit
setup_tc_netem(w) ==
    /\ wk[w].pc = "t_netem"
    /\ \E o \in TcAddNetemOutcomes(qdisc) :
         /\ qdisc' = TcAddNetem(qdisc, o, ProfileParams(Profile(w)).delay, wk[w].queue)
         /\ Set(w, CASE o = "raise" -> [wk[w] EXCEPT !.pc = OnRaiseInTry, !.exc = "setup"]
                     [] o = "fail" -> [wk[w] EXCEPT !.pc = "t_server", !.cfgFail = TRUE]
                     [] o = "ok" -> [wk[w] EXCEPT !.pc = "t_server"])
    /\ UNCHANGED <<args, installed, cc, server, store, mpc, grid, next, outcome, exitStatus>>

\* lines 98-100: iperf3 -s -p 5050 -D
run_experiment_server(w) ==
    /\ wk[w].pc = "t_server"
    /\ \E o \in Outcomes :
         /\ server' = IF o = "ok" THEN TRUE ELSE server
         /\ Set(w, IF o = "raise" THEN [wk[w] EXCEPT !.pc = OnRaiseInTry, !.exc = "capture"]
                   ELSE [wk[w] EXCEPT !.pc = "t_client"])
    /\ UNCHANGED <<args, installed, cc, qdisc, store, mpc, grid, next, outcome, exitStatus>>

\* what "iperf3 -c ... -J > iperf_result.json" leaves in the file: the shell
\* truncates it, a run writes the interval report, a failed run writes an
\* error report without intervals or nothing parsable
ClientOutcomes == IF server THEN {"ok", "fail", "raise", "hang"} ELSE {"fail", "raise", "hang"}
ClientFiles(o) == IF o = "ok" THEN {"intervals"} ELSE {"nointervals", "garbage"}

\* lines 102-104: the traffic generator; process.wait() has no timeout
run_experiment_client(w) ==
    /\ wk[w].pc = "t_client"
    /\ \E o \in ClientOutcomes :
         CASE o = "raise" -> Set(w, [wk[w] EXCEPT !.pc = OnRaiseInTry, !.exc = "capture"])
           [] o = "hang" -> Set(w, [wk[w] EXCEPT !.pc = "hung", !.launched = @ + 1])
           [] OTHER -> \E f \in ClientFiles(o) :
                          Set(w, [wk[w] EXCEPT !.pc = "t_read", !.launched = @ + 1,
                                               !.raw = f, !.capFail = (o = "fail")])
    /\ UNCHANGED <<args, installed, host, store, mpc, grid, next, outcome, exitStatus>>

\* lines 106-152: json.load raises on an unparsable file; the reduction takes
\* every missing field as 0 and an absent interval list as empty
run_experiment_reduce(w) ==
    /\ wk[w].pc = "t_read"
    /\ Set(w, IF wk[w].raw = "garbage" THEN [wk[w] EXCEPT !.pc = OnRaiseInTry, !.exc = "reduce"]
              ELSE [wk[w] EXCEPT !.pc = "t_summary"])
    /\ UNCHANGED <<args, installed, host, store, mpc, grid, next, outcome, exitStatus>>

\* the record is left as it was
Written_NotReplaced(t) == PrevTag

\* a record written by trial t, and what a failed write leaves: the old record
\* (open failed) or a truncated one (open(.., 'w') succeeded, the dump did not)
Written(t) == [k |-> "trial", by |-> t]
Truncated(t) == [k |-> "partial", by |-> t]

\* lines 154-164: result.json
run_experiment_put_summary(w) ==
    /\ wk[w].pc = "t_summary"
    /\ \/ /\ store' = [store EXCEPT ![Key(w)].summary = Written(wk[w].task)]
          /\ Set(w, [wk[w] EXCEPT !.pc = "t_series"])
       \/ /\ \E r \in {store[Key(w)].summary, Truncated(wk[w].task)} :
                store' = [store EXCEPT ![Key(w)].summary = r]
          /\ Set(w, [wk[w] EXCEPT !.pc = OnRaiseInTry, !.exc = "store"])
    /\ UNCHANGED <<args, installed, host, mpc, grid, next, outcome, exitStatus>>

\* lines 166-178: <scheme>_throughput.csv, then return 0
run_experiment_put_series(w) ==
    /\ wk[w].pc = "t_series"
    /\ \/ /\ store' = [store EXCEPT ![Key(w)].series = Written(wk[w].task)]
          /\ Set(w, [wk[w] EXCEPT !.pc = AfterReturn, !.ret = "ok"])
       \/ /\ \E r \in {store[Key(w)].series, Truncated(wk[w].task)} :
                store' = [store EXCEPT ![Key(w)].series = r]
          /\ Set(w, [wk[w] EXCEPT !.pc = OnRaiseInTry, !.exc = "store"])
    /\ UNCHANGED <<args, installed, host, mpc, grid, next, outcome, exitStatus>>

\* lines 180-182: except Exception: return 1
run_experiment_except(w) ==
    /\ wk[w].pc = "t_except"
    /\ Set(w, [wk[w] EXCEPT !.pc = AfterExcept, !.ret = "fail"])
    /\ UNCHANGED <<args, installed, host, store, mpc, grid, next, outcome, exitStatus>>

\* lines 184-186 and cleanup_tc, line 52: an exception in the finally clause
\* replaces the pending return
cleanup_tc(w) ==
    /\ wk[w].pc = "t_cleanup"
    /\ \E o \in TcDelOutcomes(qdisc) :
         /\ qdisc' = IF o = "ok" \/ ~qdisc.htb THEN TcDel(qdisc, o)
                     ELSE [qdisc EXCEPT !.kept = TRUE]
         /\ Set(w, IF o = "raise"
                   THEN [wk[w] EXCEPT !.pc = "raised", !.cleanups = @ + 1, !.clean = o]
                   ELSE [wk[w] EXCEPT !.pc = "t_killall", !.cleanups = @ + 1, !.clean = o])
    /\ UNCHANGED <<args, installed, cc, server, store, mpc, grid, next, outcome, exitStatus>>

\* line 187: killall -9 iperf3
run_experiment_killall(w) ==
    /\ wk[w].pc = "t_killall"
    /\ \E o \in Outcomes :
         /\ server' = IF o = "raise" THEN server ELSE FALSE
         /\ Set(w, IF o = "raise" THEN [wk[w] EXCEPT !.pc = "raised"]
                   ELSE [wk[w] EXCEPT !.pc = "end"])
    /\ UNCHANGED <<args, installed, cc, qdisc, store, mpc, grid, next, outcome, exitStatus>>

run_experiment(w) ==
    \/ run_experiment_begin(w)
    \/ run_experiment_interface(w)
    \/ run_experiment_sysctl(w)
    \/ setup_tc_del(w)
    \/ setup_tc_htb(w)
    \/ setup_tc_class(w)
    \/ setup_tc_netem(w)
    \/ run_experiment_server(w)
    \/ run_experiment_client(w)
    \/ run_experiment_reduce(w)
    \/ run_experiment_put_summary(w)
    \/ run_experiment_put_series(w)
    \/ run_experiment_except(w)
    \/ cleanup_tc(w)
    \/ run_experiment_killall(w)

\* ------------------------------------------- run_experiments.py: one trial
\* lines 25-47: paths, makedirs, profile parameters
run_single_experiment_begin(w) ==
    /\ wk[w].pc = "p_begin"
    /\ \E o \in {"ok", "raise"} :
         Set(w, IF o = "raise" THEN [wk[w] EXCEPT !.pc = "raised"]
                ELSE IF Profile(w) \notin Profiles
                     THEN [wk[w] EXCEPT !.pc = "end", !.ret = "fail"]
                     ELSE [wk[w] EXCEPT !.pc = "p_chdir",
                                        !.queue = PantheonProfileParams(Profile(w)).queue])
    /\ UNCHANGED <<args, installed, host, store, mpc, grid, next, outcome, exitStatus>>

\* line 50: os.chdir(pantheon_dir) raises when the directory is missing
run_single_experiment_chdir(w) ==
    /\ wk[w].pc = "p_chdir"
    /\ \E o \in {"ok", "raise"} :
         Set(w, IF o = "raise" THEN [wk[w] EXCEPT !.pc = "raised"]
                ELSE [wk[w] EXCEPT !.pc = "p_check"])
    /\ UNCHANGED <<args, installed, host, store, mpc, grid, next, outcome, exitStatus>>

\* where the trial goes after the install command returned, whatever it returned
AfterInstall(o) == "p_test"

\* lines 52-55: test.py --dry-run exits 0 iff the scheme is installed
run_single_experiment_check(w) ==
    /\ wk[w].pc = "p_check"
    /\ \E o \in {IF Scheme(w) \in installed THEN "ok" ELSE "fail", "raise"} :
         Set(w, CASE o = "raise" -> [wk[w] EXCEPT !.pc = "raised"]
                  [] o = "ok" -> [wk[w] EXCEPT !.pc = "p_test"]
                  [] o = "fail" -> [wk[w] EXCEPT !.pc = "p_install", !.absent = TRUE])
    /\ UNCHANGED <<args, installed, host, store, mpc, grid, next, outcome, exitStatus>>

\* lines 56-58: setup.py --schemes <scheme>; its exit status is dropped
run_single_experiment_install(w) ==
    /\ wk[w].pc = "p_install"
    /\ \E o \in Outcomes :
         /\ installed' = IF o = "ok" THEN installed \cup {Scheme(w)} ELSE installed
         /\ Set(w, IF o = "raise" THEN [wk[w] EXCEPT !.pc = "raised"]
                   ELSE [wk[w] EXCEPT !.pc = AfterInstall(o), !.installs = @ + 1])
    /\ UNCHANGED <<args, host, store, mpc, grid, next, outcome, exitStatus>>

\* lines 60-72: run_command(cmd, log_file) starts test.py (mahimahi shells
\* with mm-delay and the queue arguments, --pkill-cleanup local)
run_single_experiment_test(w) ==
    /\ wk[w].pc = "p_test"
    /\ \E o \in {"started", "raise"} :
         Set(w, IF o = "raise" THEN [wk[w] EXCEPT !.pc = "raised"]
                ELSE [wk[w] EXCEPT !.pc = "p_wait", !.launched = @ + 1])
    /\ UNCHANGED <<args, installed, host, store, mpc, grid, next, outcome, exitStatus>>

\* lines 20-21 and 72-75: process.wait() returns when test.py exits (it cannot
\* exit 0 for a scheme that is not installed), and never if it does not exit
run_single_experiment_wait(w) ==
    /\ wk[w].pc = "p_wait"
    /\ \E o \in (IF Scheme(w) \in installed THEN {"ok"} ELSE {}) \cup {"fail", "hang"} :
         CASE o = "ok" ->
                /\ store' = [store EXCEPT ![Key(w)].series = Written(wk[w].task)]
                /\ Set(w, [wk[w] EXCEPT !.pc = "p_analyze"])
           [] o = "fail" ->
                /\ Set(w, [wk[w] EXCEPT !.pc = "end", !.ret = "fail", !.capFail = TRUE])
                /\ UNCHANGED store
           [] o = "hang" ->
                /\ Set(w, [wk[w] EXCEPT !.pc = "hung"])
                /\ UNCHANGED store
    /\ UNCHANGED <<args, installed, host, mpc, grid, next, outcome, exitStatus>>

\* lines 77-82: analyze.py --data-dir <data_dir>; its exit status is returned
run_single_experiment_analyze(w) ==
    /\ wk[w].pc = "p_analyze"
    /\ \E o \in Outcomes :
         CASE o = "ok" ->
                /\ store' = [store EXCEPT ![Key(w)].summary = Written(wk[w].task)]
                /\ Set(w, [wk[w] EXCEPT !.pc = "end", !.ret = "ok"])
           [] o = "fail" ->
                /\ Set(w, [wk[w] EXCEPT !.pc = "end", !.ret = "fail"])
                /\ UNCHANGED store
           [] o = "raise" ->
                /\ Set(w, [wk[w] EXCEPT !.pc = "raised"])
                /\ UNCHANGED store
    /\ UNCHANGED <<args, installed, host, mpc, grid, next, outcome, exitStatus>>

run_single_experiment(w) ==
    \/ run_single_experiment_begin(w)
    \/ run_single_experiment_chdir(w)
    \/ run_single_experiment_check(w)
    \/ run_single_experiment_install(w)
    \/ run_single_experiment_test(w)
    \/ run_single_experiment_wait(w)
    \/ run_single_experiment_analyze(w)

\* ------------------------------------------------------------------ main()
\* tc_experiment.py lines 200-209: only the available schemes are kept
FilterSchemes(schemes, avail) == SelectSeq(schemes, LAMBDA x : x \in avail)

\* what the process exits with when tc_experiment.py's main() returns r: the
\* script ends with a bare "main()", not sys.exit(main())
TcExit(r) == "0"

\* run_experiments.py lines 112-118 and 121: sys.exit(main())
PantheonExit(results) ==
    IF \A i \in DOMAIN results : results[i] = "ok" THEN "0" ELSE "1"

\* get_available_cc_algorithms(), lines 26-34: what the host lists
AvailableSets == SUBSET Schemes

main_tc_start ==
    /\ mpc = "start" /\ script = "tc"
    /\ \E available \in AvailableSets :
       LET schemes == FilterSchemes(argSchemes, available) IN
         IF schemes = <<>>
         THEN /\ mpc' = "done"
              /\ exitStatus' = TcExit("1")
              /\ UNCHANGED <<grid, outcome>>
         ELSE /\ mpc' = "loop"
              /\ grid' = Cross(schemes, argProfiles)
              /\ outcome' = [i \in 1..Len(grid') |-> "none"]
              /\ UNCHANGED exitStatus
    /\ UNCHANGED <<args, installed, host, store, next, wk>>

\* run_experiments.py lines 97-104
main_pantheon_start ==
    /\ mpc = "start" /\ script = "pantheon"
    /\ mpc' = IF argParallel > 1 THEN "pool" ELSE "loop"
    /\ grid' = Cross(argSchemes, argProfiles)
    /\ outcome' = [i \in 1..Len(grid') |-> "none"]
    /\ UNCHANGED <<args, installed, host, store, next, exitStatus, wk>>

\* the call enters the function at the point where the generator is launched
FirstPc_AtGenerator == IF script = "tc" THEN "t_server" ELSE "p_test"

FirstPc == IF script = "tc" THEN "t_begin" ELSE "p_begin"

\* the sequential loops (tc_experiment.py 212-215, run_experiments.py 109-110)
\* call the trial in the main process
main_call ==
    /\ mpc = "loop" /\ wk[0].pc = "idle" /\ next <= Len(grid)
    /\ Set(0, [Idle EXCEPT !.pc = FirstPc, !.task = next])
    /\ next' = next + 1
    /\ UNCHANGED <<args, installed, host, store, mpc, grid, outcome, exitStatus>>

\* the trial returned to the loop
main_return ==
    /\ mpc = "loop" /\ wk[0].pc = "end"
    /\ outcome' = [outcome EXCEPT ![wk[0].task] = wk[0].ret]
    /\ Set(0, Idle)
    /\ UNCHANGED <<args, installed, host, store, mpc, grid, next, exitStatus>>

\* the trial raised: neither loop has a handler, the traceback ends the process
main_unwind ==
    /\ mpc = "loop" /\ wk[0].pc = "raised"
    /\ outcome' = [outcome EXCEPT ![wk[0].task] = "exc"]
    /\ mpc' = "done"
    /\ exitStatus' = "1"
    /\ Set(0, Idle)
    /\ UNCHANGED <<args, installed, host, store, grid, next>>

\* a pool with a process per pair, used whatever --parallel says
pool_dispatch_Unbounded(w) ==
    /\ mpc \in {"pool", "loop"} /\ wk[w].pc = "idle" /\ next <= Len(grid)
    /\ Set(w, [Idle EXCEPT !.pc = FirstPc, !.task = next])
    /\ next' = next + 1
    /\ UNCHANGED <<args, installed, host, store, mpc, grid, outcome, exitStatus>>

\* Pool(args.parallel).starmap, lines 105-106: an idle worker takes the next
\* pair (chunks of one pair for grids this small)
pool_dispatch(w) ==
    /\ mpc = "pool" /\ w \in Workers /\ wk[w].pc = "idle" /\ next <= Len(grid)
    /\ Set(w, [Idle EXCEPT !.pc = FirstPc, !.task = next])
    /\ next' = next + 1
    /\ UNCHANGED <<args, installed, host, store, mpc, grid, outcome, exitStatus>>

\* the worker hands the pair's return value, or its exception, to the parent
pool_result(w) ==
    /\ mpc = "pool" /\ w \in Workers /\ wk[w].pc \in {"end", "raised"}
    /\ outcome' = [outcome EXCEPT
                     ![wk[w].task] = IF wk[w].pc = "raised" THEN "exc" ELSE wk[w].ret]
    /\ Set(w, Idle)
    /\ UNCHANGED <<args, installed, host, store, mpc, grid, next, exitStatus>>

AllReturned == \A i \in 1..Len(grid) : outcome[i] # "none"

\* tc_experiment.py lines 219-223
main_tc_finish ==
    /\ mpc = "loop" /\ script = "tc" /\ next > Len(grid) /\ wk[0].pc = "idle"
    /\ mpc' = "done"
    /\ exitStatus' = TcExit("0")
    /\ UNCHANGED <<args, installed, host, store, grid, next, outcome, wk>>

\* run_experiments.py lines 106-121: starmap returns once every pair is done
\* and re-raises a worker's exception
main_pantheon_finish ==
    /\ mpc \in {"loop", "pool"} /\ script = "pantheon"
    /\ next > Len(grid) /\ AllReturned
    /\ \A w \in Workers : wk[w].pc = "idle"
    /\ mpc' = "done"
    /\ exitStatus' = IF \E i \in 1..Len(grid) : outcome[i] = "exc" THEN "1"
                     ELSE PantheonExit(outcome)
    /\ UNCHANGED <<args, installed, host, store, grid, next, outcome, wk>>

Next ==
    \/ main_tc_start
    \/ main_pantheon_start
    \/ main_call
    \/ main_return
    \/ main_unwind
    \/ \E w \in Procs : pool_dispatch(w)
    \/ \E w \in Procs : pool_result(w)
    \/ main_tc_finish
    \/ main_pantheon_finish
    \/ \E w \in Procs : run_experiment(w)
    \/ \E w \in Procs : run_single_experiment(w)

Spec == Init /\ [][Next]_vars

\* either runner, over the records of an earlier batch, with no scheme
\* installed in Pantheon yet
InitBoth ==
    /\ Init
    /\ store = PrevStore
    /\ script = "pantheon" => installed = {}
SpecBoth == InitBoth /\ [][Next]_vars

\* one runner at a time
InitTc == Init /\ script = "tc"
NextTc ==
    \/ main_tc_start
    \/ main_call
    \/ main_return
    \/ main_unwind
    \/ main_tc_finish
    \/ \E w \in Procs : run_experiment(w)
SpecTc == InitTc /\ [][NextTc]_vars

\* the interpreter keeps executing the script: every step that can be taken is
\* eventually taken
FairSpecTc == SpecTc /\ WF_vars(NextTc)

\* the same scheme may be named more than once on the command line
\* (nargs='+'): a key is then run again within one batch, over the records an
\* earlier batch left
InitTcRerun ==
    /\ script = "tc"
    /\ argSchemes \in UNION {[1..k -> Schemes] : k \in 1..MaxTrials}
    /\ argProfiles \in {<<p>> : p \in Profiles}
    /\ argParallel = 1
    /\ installed = Schemes
    /\ store = PrevStore
    /\ InitMain
    /\ InitOffline
SpecTcRerun == InitTcRerun /\ [][NextTc]_vars

InitPantheon == Init /\ script = "pantheon"
NextPantheon ==
    \/ main_pantheon_start
    \/ main_call
    \/ main_return
    \/ main_unwind
    \/ \E w \in Procs : pool_dispatch(w)
    \/ \E w \in Procs : pool_result(w)
    \/ main_pantheon_finish
    \/ \E w \in Procs : run_single_experiment(w)
SpecPantheon == InitPantheon /\ [][NextPantheon]_vars

\* the reduction of lines 110-161 taken on its own, over every report of at
\* most MaxIntervals intervals
Seconds == 0..2
Bytes == {0, 1500, 125000}
Retransmits == 0..2
\* the i-th interval of a report starts at second i-1
RawInputs ==
    {[i \in 1..Len(s) |-> [seconds |-> s[i].seconds, bytes |-> s[i].bytes,
                           retransmits |-> s[i].retransmits, start |-> i - 1]] :
        s \in UNION {[1..k -> [seconds : Seconds, bytes : Bytes,
                               retransmits : Retransmits]] : k \in 0..MaxIntervals}}

\* no batch is run
InitNoBatch ==
    /\ script = "tc"
    /\ argSchemes = <<>>
    /\ argProfiles = <<>>
    /\ argParallel = 1
    /\ installed = Schemes
    /\ store = [k \in Keys |-> EmptyRec]
    /\ InitMain

InitReduce ==
    /\ InitNoBatch
    /\ rawIntervals \in RawInputs
    /\ rawProfile \in Profiles
    /\ reduced = NotReduced
    /\ InitNoAnalysis

reduce_intervals ==
    /\ reduced.status = "none"
    /\ reduced' = Reduce(rawIntervals, ProfileParams(rawProfile).delay)
    /\ UNCHANGED <<script, argSchemes, argProfiles, argParallel, installed, host,
                   store, mpc, grid, next, outcome, exitStatus, wk,
                   rawIntervals, rawProfile, dataDir, analyzer, report>>

NextReduce == reduce_intervals
SpecReduce == InitReduce /\ [][NextReduce]_vars

\* ---------------------------------------------------------------- analysis
\* analyze_manual_results.py (analyze_results) and analyze_results.py
\* (parse_pantheon_logs, generate_comparison_table) over a data directory.
\* A directory name is the sequence of its parts between underscores:
\* data/profile1_pcc_experimental is <<"profile1", "pcc", "experimental">>.
AnalysisSchemes == {<<"cubic">>, <<"bbr">>, <<"pcc", "experimental">>}
\* f"{profile}_{cc_algorithm}", and a directory that is no trial's
DirNames == {<<p>> \o sch : p \in Profiles, sch \in AnalysisSchemes} \cup {<<"graphs">>}

\* result.json: absent, not JSON, or a dict with this avg_throughput
StoredThroughputs == {Frac(1, 2), Frac(34, 10), Num(60)}
Summaries ==
    {[k |-> "missing", avg_throughput |-> Num(0)],
     [k |-> "garbage", avg_throughput |-> Num(0)]}
    \cup {[k |-> "valid", avg_throughput |-> t] : t \in StoredThroughputs}
\* series: <scheme>_throughput.csv as the runner names it, "ok" or "missing"
DirContents == [summary : Summaries, series : {"ok", "missing"}]
DataDirs ==
    UNION {[D -> DirContents] : D \in {E \in SUBSET DirNames : Cardinality(E) <= MaxDirs}}

Min(x, y) == IF LessEq(x, y) THEN x ELSE y

\* analyze_manual_results.py 37: dir_name.split('_', 1)
SplitOnce(name) == [profile |-> name[1], scheme |-> Tail(name)]
\* analyze_results.py 22-26: parts = dirname.split('_'); parts[0], parts[1]
SplitAll(name) == [profile |-> name[1], scheme |-> <<name[2]>>]

\* analyze_manual_results.py 64-71
adjusted_throughput(profile, t) ==
    IF profile = "profile1" THEN Min(t, Num(50))
    ELSE IF profile = "profile2" THEN Min(t, Num(1))
    ELSE t

\* one row of a comparison table, with the directory it was read from
Row(d, key, t) ==
    [dir |-> d, profile |-> key.profile, scheme |-> key.scheme, avg_throughput |-> t]

InitAnalyze ==
    /\ InitNoBatch
    /\ InitNoReduction
    /\ dataDir \in DataDirs
    /\ analyzer \in {"manual", "pantheon"}
    /\ report = NoReport

\* analyze_manual_results.py 11-102
analyze_results ==
    /\ analyzer = "manual" /\ report.status = "none"
    /\ LET result_files == {d \in DOMAIN dataDir : dataDir[d].summary.k # "missing"}
           named == {d \in result_files : Len(d) >= 2}
           loaded == {d \in named : dataDir[d].summary.k = "valid"}
           results == {Row(d, SplitOnce(d),
                           adjusted_throughput(SplitOnce(d).profile,
                                               dataDir[d].summary.avg_throughput)) :
                          d \in loaded}
       IN report' =
            IF result_files = {} THEN [status |-> "empty", rows |-> {}, reported |-> 0]
            ELSE [status |-> IF results = {} THEN "empty" ELSE "done",
                  rows |-> results,
                  reported |-> Cardinality(named \ loaded)]
    /\ UNCHANGED <<script, argSchemes, argProfiles, argParallel, installed, host,
                   store, mpc, grid, next, outcome, exitStatus, wk,
                   rawIntervals, rawProfile, reduced, dataDir, analyzer>>

\* analyze_results.py 12-71, 186-243.  json.load is not guarded: the first
\* result.json that is not JSON ends the script with a traceback, after the
\* messages about the directories glob listed before it
parse_pantheon_logs ==
    /\ analyzer = "pantheon" /\ report.status = "none"
    /\ LET experiment_dirs == {d \in DOMAIN dataDir : Len(d) >= 2}
           present == {d \in experiment_dirs : dataDir[d].summary.k # "missing"}
           garbage == {d \in present : dataDir[d].summary.k = "garbage"}
           found == {d \in present :
                       dataDir[d].series = "ok" /\ SplitAll(d).scheme = Tail(d)}
           results == {Row(d, SplitAll(d), dataDir[d].summary.avg_throughput) :
                          d \in found}
           skipped == experiment_dirs \ found
       IN IF garbage # {}
          THEN \E n \in 0..Cardinality(skipped \ garbage) :
                  report' = [status |-> "raised", rows |-> {}, reported |-> n]
          ELSE report' = [status |-> IF results = {} THEN "empty" ELSE "done",
                          rows |-> results,
                          reported |-> Cardinality(skipped)]
    /\ UNCHANGED <<script, argSchemes, argProfiles, argParallel, installed, host,
                   store, mpc, grid, next, outcome, exitStatus, wk,
                   rawIntervals, rawProfile, reduced, dataDir, analyzer>>

NextAnalyze ==
    \/ analyze_results
    \/ parse_pantheon_logs
SpecAnalyze == InitAnalyze /\ [][NextAnalyze]_vars

\* ----------------------------------------------------------- trial status
TcTrial(w) == script = "tc" /\ wk[w].pc # "idle"
PantheonTrial(w) == script = "pantheon" /\ wk[w].pc # "idle"
\* the trial function has returned or raised; main has not taken the result yet
Ended(w) == wk[w].pc \in {"end", "raised"}
EndedFailed(w) == wk[w].pc = "end" /\ wk[w].ret = "fail"
EndedCompleted(w) == wk[w].pc = "end" /\ wk[w].ret = "ok"

\* the trial is between taking and giving back host-wide state: from the
\* sysctl write to the end of the finally clause (tc_experiment.py 91-187),
\* while test.py runs its emulation (run_experiments.py 72)
Holding(w) ==
    \/ script = "tc" /\ wk[w].pc \in {"t_del", "t_htb", "t_class", "t_netem", "t_server",
                                      "t_client", "hung", "t_read", "t_summary",
                                      "t_series", "t_except", "t_cleanup", "t_killall"}
    \/ script = "pantheon" /\ wk[w].pc \in {"p_wait", "hung"}

\* no trial is configured on the interface: none runs, or the running one has
\* not yet issued setup_tc's first command
BetweenTrials ==
    script = "tc" /\ wk[0].pc \in {"idle", "end", "raised", "t_begin", "t_iface",
                                  "t_sysctl", "t_del"}

\* ------------------------------------------------------------------ claims

\* C1 (as stated): every execution of run_experiment invokes cleanup_tc
\* exactly once (stated for the executions that return).
C1_TeardownOncePerTrial ==
    \A w \in Procs : TcTrial(w) /\ wk[w].pc = "end" => wk[w].cleanups = 1

\* C1 (amended): cleanup_tc is invoked exactly once in every execution of
\* run_experiment that reaches the try block (setup_tc is called), whether the
\* trial succeeds, setup_tc raises or the capture/reduction raises, and never
\* in an execution that returns or raises before it; it is never invoked
\* before setup_tc nor twice.
C1_TeardownOnceAfterConfigure ==
    \A w \in Procs : TcTrial(w) =>
        /\ wk[w].setups <= 1
        /\ wk[w].cleanups <= wk[w].setups
        /\ Ended(w) => wk[w].cleanups = wk[w].setups

\* a trial in which setup_tc raised has returned 1 after one teardown
C1_Witness ==
    \E w \in Procs : TcTrial(w) /\ EndedFailed(w) /\ wk[w].exc = "setup"
                     /\ wk[w].setups = 1 /\ wk[w].cleanups = 1

C3_ExclusiveHostState == Cardinality({w \in Procs : Holding(w)}) <= 1

\* C4: when the batch is over, every pair of the grid has been executed to a
\* return value of its own (no trial's failure ended the batch), and every
\* pair that returned 0 has its summary in the store.
C4_FailureIsolated ==
    mpc = "done" =>
        \A i \in 1..Len(grid) :
            /\ outcome[i] \in {"ok", "fail"}
            /\ outcome[i] = "ok" => store[KeyOf(grid[i])].summary.k = "trial"

\* C5: the command exits 0 iff every trial of the batch returned 0.
C5_ExitStatusIffAllSucceeded ==
    mpc = "done" =>
        (exitStatus = "0" <=> \A i \in 1..Len(grid) : outcome[i] = "ok")

\* C6: every started trial eventually ends (returns or raises), even when the
\* traffic generator never exits on its own.
C6_EveryTrialEnds == \A w \in Procs : (wk[w].pc # "idle") ~> Ended(w)

\* C7: once a tc add command of setup_tc has failed, the traffic generator is
\* not launched and the trial does not return 0.
C7_ConfigureFailureIsFatal ==
    \A w \in Procs : TcTrial(w) /\ wk[w].cfgFail =>
        wk[w].launched = 0 /\ wk[w].ret # "ok"

\* C8: once the generator has exited non-zero, the trial does not reach the
\* reducer or the store and does not return 0.
C8_CaptureFailureIsFatal ==
    \A w \in Procs : wk[w].pc # "idle" /\ wk[w].capFail =>
        /\ wk[w].pc \notin {"t_read", "t_summary", "t_series", "p_analyze"}
        /\ wk[w].ret # "ok"
        /\ store[Key(w)].summary # Written(wk[w].task)

\* C9: a trial whose availability check failed runs the install command at most
\* once and, with the scheme still not installed after it, does not launch the
\* traffic generator.
C9_UnavailableSchemeNotRun ==
    \A w \in Procs : PantheonTrial(w) /\ wk[w].absent =>
        /\ wk[w].installs <= 1
        /\ wk[w].installs = 1 /\ Scheme(w) \notin installed => wk[w].launched = 0

\* C10: when a trial has ended Failed, the summary stored under its key is not
\* the record of an earlier successful run.
C10_FailedRunRecorded ==
    \A w \in Procs : wk[w].pc # "idle" /\ EndedFailed(w) =>
        /\ store[Key(w)].summary # PrevTag
        /\ store[Key(w)].summary.k = "trial" => store[Key(w)].summary.by = wk[w].task

\* C11: when every trial of a key run so far has returned 0, the store holds
\* under that key one summary and one series record, and both are the ones the
\* most recent of these trials wrote (records of earlier trials and of earlier
\* batches are replaced).
C11_StoreHoldsLatestSuccessfulTrial ==
    \A i \in 1..Len(grid) :
        (/\ outcome[i] = "ok"
         /\ \A j \in 1..Len(grid) :
               KeyOf(grid[j]) = KeyOf(grid[i]) =>
                   \/ outcome[j] = "ok" /\ j <= i
                   \/ j > i /\ j >= next)
        => store[KeyOf(grid[i])] = [summary |-> [k |-> "trial", by |-> i],
                                    series |-> [k |-> "trial", by |-> i]]

\* two trials of one key have returned 0 over the records of an earlier batch,
\* and the store holds the second trial's records
C11_Witness ==
    /\ script = "tc" /\ mpc = "done" /\ Len(grid) = 2
    /\ KeyOf(grid[1]) = KeyOf(grid[2])
    /\ outcome = <<"ok", "ok">>
    /\ store[KeyOf(grid[2])].summary = [k |-> "trial", by |-> 2]
    /\ store[KeyOf(grid[2])].series = [k |-> "trial", by |-> 2]

\* C12: when the batch is over, the grid is the scheme-major cross product of
\* the schemes and profiles given, and every one of its S*P pairs has been
\* started exactly once (the pairs are started in grid order, one per index, so
\* as many were started as next has moved).
C12_EveryPairRunExactlyOnce ==
    mpc = "done" =>
        /\ grid = Cross(argSchemes, argProfiles)
        /\ Len(grid) = Len(argSchemes) * Len(argProfiles)
        /\ next - 1 = Len(grid)
        /\ \A i \in 1..Len(grid) : outcome[i] # "none"

\* the trials that have started and not yet finished
Running == {w \in Procs : wk[w].pc \notin {"idle", "end", "raised"}}

C14_EmptyInputAllZero ==
    reduced.status # "none" /\ rawIntervals = <<>> =>
        /\ reduced.status = "done"
        /\ reduced.throughput_data = <<>>
        /\ reduced.result.avg_throughput = Num(0)
        /\ reduced.result.avg_delay = 0
        /\ reduced.result.loss_rate = Num(0)

\* C15: the reduction never raises a division error, and for every raw
\* interval the sample's throughput is bytes*8 / (seconds*1e6) when
\* seconds > 0 and 0 otherwise; seconds = 1 with bytes = 125000 gives exactly
\* 1 Mbps.
C15_ThroughputFormula ==
    reduced.status # "none" =>
        /\ reduced.status = "done"
        /\ Len(reduced.throughput_data) = Len(rawIntervals)
        /\ \A i \in 1..Len(rawIntervals) :
              LET s == rawIntervals[i]
                  t == reduced.throughput_data[i].throughput
              IN /\ t.d > 0
                 /\ s.seconds > 0 => t.n * (s.seconds * 1000000) = (s.bytes * 8) * t.d
                 /\ s.seconds <= 0 => t.n = 0
                 /\ s.seconds = 1 /\ s.bytes = 125000 => t = [n |-> 1, d |-> 1]

\* a report with a 125000-byte one-second interval and a zero-length interval
\* has been reduced
C15_Witness ==
    /\ reduced.status = "done"
    /\ \E i, j \in 1..Len(rawIntervals) :
          /\ rawIntervals[i].seconds = 1 /\ rawIntervals[i].bytes = 125000
          /\ reduced.throughput_data[i].throughput = [n |-> 1, d |-> 1]
          /\ rawIntervals[j].seconds = 0 /\ rawIntervals[j].bytes > 0
          /\ reduced.throughput_data[j].throughput = [n |-> 0, d |-> 1]

\* C16 (as stated): for every raw interval the packet count is bytes/1500
\* when bytes > 0 and 0 otherwise, and the sample's loss is retransmits over
\* that count, 0 when the count is 0: zero bytes with retransmits gives loss 0.
C16_LossPerInterval ==
    reduced.status # "none" =>
        \A i \in 1..Len(rawIntervals) :
            LET s == rawIntervals[i]
                l == reduced.throughput_data[i].loss
            IN /\ l.d > 0
               /\ s.bytes > 0 => l.n * s.bytes = (s.retransmits * 1500) * l.d
               /\ s.bytes <= 0 => l.n = 0

\* C17 (as stated): every sample's loss and the summary's loss_rate lie in
\* [0,1], whatever the non-negative bytes and retransmits of the input.
C17_LossWithinUnitInterval ==
    reduced.status # "none" =>
        /\ \A i \in 1..Len(reduced.throughput_data) :
              LET l == reduced.throughput_data[i].loss
              IN l.d > 0 /\ 0 <= l.n /\ l.n <= l.d
        /\ LET r == reduced.result.loss_rate
           IN r.d > 0 /\ 0 <= r.n /\ r.n <= r.d

\* C18 (as stated): with at least one interval the summary's loss_rate is
\* the arithmetic mean of the samples' loss values; only with none is it
\* total retransmits over total estimated packets (0 of them).
C18_SummaryLossIsMeanOfSamples ==
    reduced.status # "none" =>
        LET RECURSIVE SumLoss(_)
            SumLoss(data) == IF data = <<>> THEN Num(0)
                             ELSE Add(SumLoss(Tail(data)), Head(data).loss)
        IN IF Len(rawIntervals) > 0
           THEN reduced.result.loss_rate =
                    Div(SumLoss(reduced.throughput_data), Num(Len(rawIntervals)))
           ELSE reduced.result.loss_rate = Num(0)

\* C19 (as stated): in a comparison table every row of profile1 or profile2
\* shows min(stored avg_throughput, ceiling), the ceiling being 50 for
\* profile1 and 1 for profile2: a stored 3.4 on profile2 is shown as 1.
C19_TableShowsCeiledThroughput ==
    report.status = "done" =>
        \A row \in report.rows :
            LET stored == dataDir[row.dir].summary.avg_throughput
                ceiling == IF row.profile = "profile1" THEN Num(50) ELSE Num(1)
            IN /\ LessEq(row.avg_throughput, ceiling)
               /\ LessEq(row.avg_throughput, stored)
               /\ row.avg_throughput \in {stored, ceiling}
               /\ row.profile = "profile2" /\ stored = [n |-> 17, d |-> 5]
                     => row.avg_throughput = [n |-> 1, d |-> 1]

\* C20 (as stated): over a data directory in which some trials have no valid
\* summary (none, or one that is not JSON) the analysis does not fail, its
\* tables hold exactly the trials with a valid summary, and it reports how
\* many trials it left out.
C20_OmitsExactlyInvalidAndCounts ==
    report.status # "none" =>
        LET trials == {d \in DOMAIN dataDir : Len(d) >= 2}
            valid == {d \in trials : dataDir[d].summary.k = "valid"}
        IN /\ report.status # "raised"
           /\ {row.dir : row \in report.rows} = valid
           /\ report.reported = Cardinality(trials \ valid)

\* C21: a batch whose grid is empty ends with a non-zero exit status (and so
\* never with the status that stands for "all experiments succeeded").
C21_EmptyGridIsFailure ==
    mpc = "done" /\ grid = <<>> => exitStatus = "1"

\* the process runs a trial of a profile id outside the catalog
UnknownTrial(w) == wk[w].pc # "idle" /\ Profile(w) \notin Profiles

\* C22: no step taken while a trial of an unknown profile id is under way
\* changes the congestion-control selection, the interface's emulation
\* state, the generator's server or any stored record; the trial calls neither
\* setup_tc nor cleanup_tc, launches no generator, and when it returns it
\* returns non-zero.
C22_UnknownProfileLeavesHostUntouched ==
    [][\A w \in Procs :
          UnknownTrial(w) =>
              /\ UNCHANGED <<cc, qdisc, server, store>>
              /\ wk'[w].setups = 0 /\ wk'[w].cleanups = 0 /\ wk'[w].launched = 0
              /\ wk'[w].pc = "end" => wk'[w].ret = "fail"]_vars

\* a bbr trial of an unknown profile id has returned non-zero on a host that
\* still selects cubic
C22_Witness ==
    \E w \in Procs :
        /\ TcTrial(w) /\ UnknownTrial(w) /\ Scheme(w) = "bbr"
        /\ EndedFailed(w)
        /\ cc = "cubic" /\ qdisc = NoQdisc /\ ~server
        /\ store[Key(w)] \in {EmptyRec, PrevStore[Key(w)]}

\* C23: the queue size a trial of a built-in profile works with, in either
\* runner, is bandwidth_mbps * 1000000 * delay_ms / 8 / 1000 bytes with no
\* remainder, 62500 for profile1 and 25000 for profile2; it is the netem limit
\* tc_experiment.py installs, and the numbers written out in run_experiments.py
\* are the ones tc_experiment.py derives.
C23_QueueIsBandwidthDelayProduct ==
    /\ \A w \in Procs :
          wk[w].pc # "idle" /\ wk[w].queue # 0 =>
              LET bw == IF Profile(w) = "profile1" THEN 50 ELSE 1
                  delay == IF Profile(w) = "profile1" THEN 10 ELSE 200
              IN /\ Profile(w) \in Profiles
                 /\ wk[w].queue * 8 * 1000 = bw * 1000000 * delay
                 /\ wk[w].queue = (IF Profile(w) = "profile1" THEN 62500 ELSE 25000)
                 /\ wk[w].queue = ProfileParams(Profile(w)).queue
                 /\ wk[w].queue = PantheonProfileParams(Profile(w)).queue
    /\ qdisc.netem =>
          \/ (qdisc.limit = 62500 /\ qdisc.delay = 10)
          \/ (qdisc.limit = 25000 /\ qdisc.delay = 200)

\* a profile2 trial of tc_experiment.py has installed netem with limit 25000
\* (or a trial of run_experiments.py is about to pass 25000 to test.py)
C23_Witness ==
    \E w \in Procs :
        /\ wk[w].pc # "idle" /\ Profile(w) = "profile2" /\ wk[w].queue = 25000
        /\ \/ (script = "tc" /\ qdisc.netem /\ qdisc.limit = 25000
                               /\ qdisc.by = wk[w].task)
           \/ (script = "pantheon" /\ wk[w].pc = "p_test")

\* the interface carries exactly the emulation of profile p: the htb root,
\* the class with p's rate, and netem with p's delay and queue limit
Configured(p) ==
    /\ qdisc.htb /\ qdisc.netem
    /\ qdisc.rate = ProfileParams(p).bw
    /\ qdisc.delay = ProfileParams(p).delay
    /\ qdisc.limit = ProfileParams(p).queue

\* C24: when setup_tc has returned, whatever the interface carried before
\* (nothing, the same profile's emulation, another profile's), it carries
\* exactly the requested profile's emulation.
C24_ConfigureLeavesRequestedProfile ==
    \A w \in Procs :
        TcTrial(w) /\ wk[w].pc = "t_server" => Configured(Profile(w))

\* where a trial is in its life, read off the statement its process is at.
\* Pending: paths, profile lookup, interface lookup.  Configuring: the sysctl
\* write and setup_tc; the availability check and install, up to launching
\* test.py.  Running: the generator (server, client; test.py) has been or is
\* being launched and is waited for.  Collecting: reading, reducing and
\* writing the records (analyze.py), and, with "return 0" pending, the finally
\* clause.  Completed: the function returned 0.  Failed: it returned 1, raised,
\* or is on its way out through the except and finally clauses.
Phase(r) ==
    CASE r.pc = "idle" -> "None"
      [] r.pc \in {"t_begin", "t_iface", "p_begin", "p_chdir"} -> "Pending"
      [] r.pc \in {"t_sysctl", "t_del", "t_htb", "t_class", "t_netem",
                   "p_check", "p_install", "p_test"} -> "Configuring"
      [] r.pc \in {"t_server", "t_client", "p_wait", "hung"} -> "Running"
      [] r.pc \in {"t_read", "t_summary", "t_series", "p_analyze"} -> "Collecting"
      [] r.pc \in {"t_cleanup", "t_killall"} ->
             IF r.ret = "ok" THEN "Collecting" ELSE "Failed"
      [] r.pc = "t_except" -> "Failed"
      [] r.pc = "raised" -> "Failed"
      [] r.pc = "end" -> IF r.ret = "ok" THEN "Completed" ELSE "Failed"

\* C25: a trial moves only forward through Pending, Configuring, Running,
\* Collecting and ends in Completed or Failed: Completed is entered from
\* Collecting only, Failed from any earlier state, and neither is left except
\* by handing the result back.  A generator has been launched only in a trial
\* that is past Configuring, and a summary record (in tc_experiment.py also a
\* series record) changes only in a step of a trial that is Collecting.
C25_TrialStatesInOrder ==
    [][/\ \A w \in Procs :
             /\ <<Phase(wk[w]), Phase(wk'[w])>> \in
                    {<<"None", "None">>, <<"None", "Pending">>,
                     <<"Pending", "Pending">>, <<"Pending", "Configuring">>,
                     <<"Configuring", "Configuring">>, <<"Configuring", "Running">>,
                     <<"Running", "Running">>, <<"Running", "Collecting">>,
                     <<"Collecting", "Collecting">>, <<"Collecting", "Completed">>,
                     <<"Pending", "Failed">>, <<"Configuring", "Failed">>,
                     <<"Running", "Failed">>, <<"Collecting", "Failed">>,
                     <<"Failed", "Failed">>, <<"Completed", "Completed">>,
                     <<"Failed", "None">>, <<"Completed", "None">>}
             /\ wk'[w].launched > 0 =>
                    Phase(wk'[w]) \in {"Running", "Collecting", "Completed", "Failed"}
             /\ wk'[w].launched <= 1
       /\ \/ store' = store
          \/ \A k \in Keys :
                \/ store'[k].summary = store[k].summary
                       /\ (script = "tc" => store'[k].series = store[k].series)
                \/ \E w \in Procs : Phase(wk[w]) = "Collecting" /\ Key(w) = k]_vars

\* a trial that went through every state has returned 0 with its records
\* written
C25_Witness ==
    \E w \in Procs :
        /\ Phase(wk[w]) = "Completed"
        /\ wk[w].launched = 1
        /\ store[Key(w)].summary.k = "trial"

\* C26: while a trial's traffic generator runs (the server has been started,
\* the client is running or hanging), the host selects the trial's scheme and
\* the interface carries exactly the trial's profile.
C26_GeneratorRunsUnderTrialSettings ==
    \A w \in Procs :
        TcTrial(w) /\ wk[w].pc \in {"t_client", "hung"} =>
            cc = Scheme(w) /\ Configured(Profile(w))

\* C27: whenever no trial is at work on a key, the summary record and the
\* series record stored under it were written by the same trial run (or both
\* by the earlier batch, or neither exists).
C27_SummaryAndSeriesFromSameRun ==
    \A k \in Keys :
        (\A w \in Procs : TcTrial(w) /\ Key(w) = k => Ended(w))
        => store[k].summary = store[k].series

\* C28: for every directory profile_scheme that holds a summary and the
\* series file the runner wrote, the analysis that ran to its end has a row
\* read from it whose profile and scheme are the ones the name was built
\* from, also when the scheme's name contains an underscore; and every row's
\* key spells the name of the directory it was read from.
C28_KeyRoundTrip ==
    report.status \in {"done", "empty"} =>
        /\ \A d \in DOMAIN dataDir :
              (/\ Len(d) >= 2
               /\ dataDir[d].summary.k = "valid"
               /\ dataDir[d].series = "ok")
              => \E row \in report.rows :
                    row.dir = d /\ row.profile = d[1] /\ row.scheme = Tail(d)
        /\ \A row \in report.rows : <<row.profile>> \o row.scheme = row.dir

====
